---- MODULE Spec2Model ----
(***************************************************************************)
(* Model of the game engine inside src/src/App.tsx (the App component):    *)
(* the React state (grid, target, score, mode, gameState, timeLeft), the   *)
(* handlers initGame, addRow, handleBlockClick, the interval callback of   *)
(* the timer effect and the pause / resume / quit / restart buttons.       *)
(*                                                                         *)
(* The board sizes and value ranges of the source (10 x 6 cells, values    *)
(* 1..9, targets 10..25, 15 seconds) are scaled down so that the state     *)
(* space is finite and small.  With two columns a Classic game can only    *)
(* fill a column when one block alone can reach the target, so the scaled  *)
(* TARGET_MIN equals the largest block value; Match, Overflow and Pending  *)
(* all occur, with one, two or three selected blocks.                      *)
(*                                                                         *)
(* Spec renders after every event.  SpecInput adds calls of                *)
(* handleBlockClick with a row or column outside the board, SpecRace a     *)
(* click that arrives before the updates of an interval callback are       *)
(* rendered, SpecIdle a player who stops clicking, with the interval       *)
(* weakly fair.  SpecGravity applies the gravity pass to arbitrary grids.  *)
(***************************************************************************)
EXTENDS Integers, FiniteSets, Sequences, TLC

\* ------------------------------------------------------------ constants
\* App.tsx:29  const COLS = 6            (scaled)
COLS == 2
\* App.tsx:30  const ROWS = 10           (scaled)
ROWS == 3
\* App.tsx:31  const INITIAL_ROWS = 4    (scaled)
INITIAL_ROWS == 2
\* App.tsx:32  const TARGET_MIN = 10     (scaled)
TARGET_MIN == 2
\* App.tsx:33  const TARGET_MAX = 25     (scaled)
TARGET_MAX == 3
\* App.tsx:34  const TIME_MODE_LIMIT = 15 (scaled)
TIME_MODE_LIMIT == 2
\* App.tsx:66,99  Math.floor(Math.random() * 9) + 1 : values 1..9 (scaled)
MaxValue == 2
\* App.tsx:168  points per cleared tile
POINTS == 10
\* the score is unbounded in the source: a game of the model clears at most
\* MaxCleared tiles, so the score stays within MaxScore
MaxCleared == 2
MaxScore == MaxCleared * POINTS
\* the gravity harness applies the pass at most MaxPasses times
MaxPasses == 2

\* the most countdown expiries an idle game can see: ROWS injections on an
\* empty board and the refused one; the count stops there
MaxExpiries == ROWS + 1

RowIdx == 0 .. (ROWS - 1)
ColIdx == 0 .. (COLS - 1)
Values == 1 .. MaxValue
Targets == TARGET_MIN .. TARGET_MAX
GameModes == {"classic", "time"}
GameStates == {"menu", "playing", "paused", "gameover"}

\* ------------------------------------------------------------ data
\* interface Block { id; value; isSelected }; a null cell is the record Null
Null == [id |-> 0, value |-> 0, isSelected |-> FALSE]

Block(i, v, s) == [id |-> i, value |-> v, isSelected |-> s]

\* Array(ROWS).fill(null).map(() => Array(COLS).fill(null))
EmptyGrid == [r \in RowIdx |-> [c \in ColIdx |-> Null]]

\* the ids of the blocks on a grid
Ids(g) == {g[r][c].id : r \in DOMAIN g, c \in ColIdx} \ {0}

Min(S) == CHOOSE x \in S : \A y \in S : x <= y

\* Math.random().toString(36).substr(2, 9): an id no block of the grid has.
\* A block never leaves its column, so the new block of column c takes the
\* smallest of the column's ids (c + 1, COLS + c + 1, ...) that is not on the grid
FreshId(g, c) == Min({k * COLS + c + 1 : k \in 0 .. ROWS} \ Ids(g))

VARIABLES
  grid,       \* useState<(Block | null)[][]>([])
  target,     \* useState<number>(0)
  score,      \* useState(0)
  mode,       \* useState<GameMode>('classic')
  gameState,  \* useState('menu')
  timeLeft,   \* useState(TIME_MODE_LIMIT)
  render,     \* what the last render of App captured for its handlers
  grav,       \* harness of the gravity pass: its input grid, the grid before
              \* the last pass, the grid after it, the passes applied
  timers,     \* the intervals of setInterval that are live, and whether
              \* timerRef.current (line 55) names a live one
  thrown,     \* the last handler ended with an uncaught TypeError
  idle        \* the player has stopped playing a TimeAttack game: whether, from
              \* the initial board or not, and the countdown expiries since

vars == <<grid, target, score, mode, gameState, timeLeft, render, grav, timers, thrown, idle>>

\* the state a render of App closes over: handleBlockClick reads grid, target,
\* mode and gameState from it; the buttons are shown or disabled by gameState
Snapshot(g, t, m, gs) == [grid |-> g, target |-> t, mode |-> m, gameState |-> gs]

\* lines 109, 119: the interval runs while gameState is playing and mode is time
timerWanted(snap) == snap.gameState = "playing" /\ snap.mode = "time"

\* lines 120, 123: if (timerRef.current) clearInterval(timerRef.current)
clearTimer(t) == [live |-> IF t.ref THEN t.live - 1 ELSE t.live, ref |-> FALSE]

\* mutant: the effect starts intervals and never clears one
timerEffectNeverClears(t, old, new) ==
  IF old.gameState = new.gameState /\ old.mode = new.mode THEN t
  ELSE IF timerWanted(new) THEN [live |-> t.live + 1, ref |-> TRUE] ELSE t

\* lines 108-125: the timer effect, run after a render whose gameState or mode
\* differs from the render before: the cleanup of the last run (lines 122-124),
\* then the body (lines 109-121)
timerEffect(t, old, new) ==
  IF old.gameState = new.gameState /\ old.mode = new.mode THEN t
  ELSE IF timerWanted(new)
       THEN [live |-> clearTimer(t).live + 1, ref |-> TRUE]
       ELSE clearTimer(clearTimer(t))

\* React renders App after the event's state updates and runs the effects; the
\* next event's handlers are those of that render
Rendered ==
  /\ render' = Snapshot(grid', target', mode', gameState')
  /\ timers' = timerEffect(timers, render, render')

\* the handler returned normally
Returned == thrown' = FALSE

\* ------------------------------------------------------------ gravity
\* mutant: the block found is copied to the free slot but not taken out
RECURSIVE GravityColKeeps(_, _, _)
GravityColKeeps(col, row, emptyRow) ==
  IF row < 0 THEN col
  ELSE IF col[row] # Null
       THEN GravityColKeeps([col EXCEPT ![emptyRow] = col[row]], row - 1, emptyRow - 1)
       ELSE GravityColKeeps(col, row - 1, emptyRow)

\* mutant: a block drops by one row only, into the cell right below it
RECURSIVE GravityColOneStep(_, _, _)
GravityColOneStep(col, row, emptyRow) ==
  IF row < 0 THEN col
  ELSE IF col[row] # Null /\ row < ROWS - 1 /\ col[row + 1] = Null
       THEN GravityColOneStep([[col EXCEPT ![row] = Null] EXCEPT ![row + 1] = col[row]],
                              row - 1, emptyRow)
       ELSE GravityColOneStep(col, row - 1, emptyRow)

\* lines 156-164, one column: row runs from ROWS-1 down to 0, emptyRow is the
\* next free slot from the bottom; a block found is taken out and put there
RECURSIVE GravityCol(_, _, _)
GravityCol(col, row, emptyRow) ==
  IF row < 0 THEN col
  ELSE IF col[row] # Null
       THEN GravityCol([[col EXCEPT ![row] = Null] EXCEPT ![emptyRow] = col[row]],
                       row - 1, emptyRow - 1)
       ELSE GravityCol(col, row - 1, emptyRow)

\* mutant: the cleared cells stay where they are
applyGravityNone(g) == g

\* lines 155-165: the gravity pass over every column
applyGravity(g) ==
  LET done == [c \in ColIdx |-> GravityCol([r \in RowIdx |-> g[r][c]], ROWS - 1, ROWS - 1)]
  IN  [r \in RowIdx |-> [c \in ColIdx |-> done[c][r]]]

\* ------------------------------------------------------------ addRow
\* mutant: only the first cell of row 0 is looked at
topRowFirstCell(g) == g[0][0] # Null

\* line 85: prevGrid[0].some(cell => cell !== null)
topRowOccupied(g) == \E c \in ColIdx : g[0][c] # Null

\* mutant: the new row's blocks are created selected
newRowSelected(g, vals) == [c \in ColIdx |-> Block(FreshId(g, c), vals[c], TRUE)]

\* lines 97-101: the new bottom row, values drawn by Math.random
newRow(g, vals) == [c \in ColIdx |-> Block(FreshId(g, c), vals[c], FALSE)]

\* lines 90-103: every row takes the row below it, the new row goes last
shiftUp(g, vals) ==
  [r \in RowIdx |-> IF r < ROWS - 1 THEN g[r + 1] ELSE newRow(g, vals)]

\* mutant: a full board is shifted all the same, and the game goes on
addRowNeverLoses(prevGrid, vals) == [grid |-> shiftUp(prevGrid, vals), lost |-> FALSE]

\* mutant: a full board is shifted all the same, and the game is lost
addRowShiftsFull(prevGrid, vals) ==
  [grid |-> shiftUp(prevGrid, vals), lost |-> topRowOccupied(prevGrid)]

\* lines 82-105: the updater addRow hands to setGrid, and whether it called
\* setGameState('gameover')
addRow(prevGrid, vals) ==
  IF topRowOccupied(prevGrid)
  THEN [grid |-> prevGrid, lost |-> TRUE]
  ELSE [grid |-> shiftUp(prevGrid, vals), lost |-> FALSE]

\* ------------------------------------------------------------ selection
\* mutant: the flag of the block is flipped and every other block deselected
toggleAlone(g, r, c) ==
  [i \in RowIdx |-> [j \in ColIdx |->
     IF <<i, j>> = <<r, c>> THEN [g[i][j] EXCEPT !.isSelected = ~@]
     ELSE IF g[i][j] = Null THEN Null ELSE [g[i][j] EXCEPT !.isSelected = FALSE]]]

\* line 134: newGrid[r][c] = { ...block, isSelected: !block.isSelected }
toggle(g, r, c) == [g EXCEPT ![r][c] = [@ EXCEPT !.isSelected = ~@]]

\* lines 137-144: the cells of newGrid whose block is selected
selectedBlocks(g) == {p \in RowIdx \X ColIdx : g[p[1]][p[2]].isSelected}

RECURSIVE SumValues(_, _)
SumValues(g, S) ==
  IF S = {} THEN 0
  ELSE LET p == CHOOSE q \in S : TRUE
       IN  g[p[1]][p[2]].value + SumValues(g, S \ {p})

\* line 146: selectedBlocks.reduce((acc, b) => acc + b.val, 0)
currentSum(g) == SumValues(g, selectedBlocks(g))

\* mutant: the selected blocks of the bottom row are not cleared
clearSelectedAboveBottom(g) ==
  [r \in RowIdx |-> [c \in ColIdx |->
     IF g[r][c].isSelected /\ r < ROWS - 1 THEN Null ELSE g[r][c]]]

\* lines 150-152: newGrid[b.r][b.c] = null for every selected block
clearSelected(g) ==
  [r \in RowIdx |-> [c \in ColIdx |-> IF g[r][c].isSelected THEN Null ELSE g[r][c]]]

\* mutant: the selected blocks are removed instead of deselected
deselectAllRemoves(g) ==
  [r \in RowIdx |-> [c \in ColIdx |-> IF g[r][c].isSelected THEN Null ELSE g[r][c]]]

\* mutant: the selection is kept on an Overflow
deselectAllKeeps(g) == g

\* lines 184-188: if (cell) cell.isSelected = false, for every cell
deselectAll(g) ==
  [r \in RowIdx |-> [c \in ColIdx |-> [g[r][c] EXCEPT !.isSelected = FALSE]]]

\* lines 133-165: the grid a Match hands to setGrid at line 167
matchGrid(g, r, c) == applyGravity(clearSelected(toggle(g, r, c)))

\* mutant: ten points for the Match, whatever the number of blocks
awardPerMatch(prev, n) == prev + POINTS

\* line 168: setScore(prev => prev + (selectedBlocks.length * 10))
award(prev, n) == prev + n * POINTS

\* mutant: a row is added after a Match in either mode
injectsAlways(m) == TRUE

\* line 170: if (mode === 'classic') addRow(); else setTimeLeft(TIME_MODE_LIMIT)
injectsAfterMatch(m) == m = "classic"

\* mutant: the countdown runs down to 0 before it expires
expiredAtZero(prev) == prev <= 0

\* line 112: if (prev <= 1)
expired(prev) == prev <= 1

\* ------------------------------------------------------------ actions
NoGrav == [in |-> EmptyGrid, last |-> EmptyGrid, out |-> EmptyGrid, passes |-> 0]

\* no interval before the first effect run: timerRef = useRef(null), line 55
NoTimers == [live |-> 0, ref |-> FALSE]

\* the player is playing
NotIdle == [on |-> FALSE, fromStart |-> FALSE, expiries |-> 0]

\* lines 47-53: the useState initial values
Init ==
  /\ grid = << >>
  /\ target = 0
  /\ score = 0
  /\ mode = "classic"
  /\ gameState = "menu"
  /\ timeLeft = TIME_MODE_LIMIT
  /\ render = Snapshot(<< >>, 0, "classic", "menu")
  /\ grav = NoGrav
  /\ timers = NoTimers
  /\ thrown = FALSE
  /\ idle = NotIdle

\* line 62: r = ROWS - 1 down to ROWS - INITIAL_ROWS
InitialRowIdx == (ROWS - INITIAL_ROWS) .. (ROWS - 1)

\* lines 59-70: the bottom INITIAL_ROWS rows filled, bottom row first
initialGrid(vals) ==
  [r \in RowIdx |-> [c \in ColIdx |->
     IF r \in InitialRowIdx
     THEN Block((ROWS - 1 - r) * COLS + c + 1, vals[r][c], FALSE)
     ELSE Null]]

\* lines 58-78, from the menu overlay's buttons (lines 293-311)
initGame(selectedMode) ==
  /\ render.gameState = "menu"
  /\ \E vals \in [InitialRowIdx -> [ColIdx -> Values]] : grid' = initialGrid(vals)
  /\ target' \in Targets
  /\ score' = 0
  /\ mode' = selectedMode
  /\ gameState' = "playing"
  /\ timeLeft' = TIME_MODE_LIMIT
  /\ Rendered
  /\ Returned
  /\ UNCHANGED <<grav, idle>>

\* lines 148-181: currentSum === target
Match(r, c) ==
  LET n == Cardinality(selectedBlocks(toggle(render.grid, r, c)))
      g == matchGrid(render.grid, r, c)
  IN  /\ award(score, n) <= MaxScore
      /\ score' = award(score, n)
      /\ target' \in Targets
      /\ IF injectsAfterMatch(render.mode)
         THEN /\ \E vals \in [ColIdx -> Values] :
                   LET res == addRow(g, vals)
                   IN  /\ grid' = res.grid
                       /\ gameState' = IF res.lost THEN "gameover" ELSE gameState
              /\ UNCHANGED timeLeft
         ELSE /\ grid' = g
              /\ timeLeft' = TIME_MODE_LIMIT
              /\ UNCHANGED gameState
      /\ UNCHANGED mode

\* mutant: only the menu refuses cell activations
acceptsInputUnlessMenu(gs) == gs # "menu"

\* line 128: if (gameState !== 'playing') return
acceptsInput(gs) == gs = "playing"

\* line 130: grid[r] is undefined for a row outside the grid, and reading [c]
\* of undefined throws a TypeError
rowMissing(g, r) == r \notin DOMAIN g

\* lines 130-131: grid[r][c] is undefined for a column outside the row, null
\* for an empty cell; if (!block) return
noBlock(g, r, c) == c \notin ColIdx \/ g[r][c] = Null

\* lines 127-193, the onClick of a cell (line 271)
handleBlockClick(r, c) ==
  /\ IF ~acceptsInput(render.gameState)
     THEN UNCHANGED <<grid, target, score, mode, gameState, timeLeft>>
     ELSE IF rowMissing(render.grid, r)
     THEN UNCHANGED <<grid, target, score, mode, gameState, timeLeft>>
     ELSE IF noBlock(render.grid, r, c)
     THEN UNCHANGED <<grid, target, score, mode, gameState, timeLeft>>
     ELSE LET newGrid == toggle(render.grid, r, c)
          IN  IF currentSum(newGrid) = render.target
              THEN Match(r, c)
              ELSE IF currentSum(newGrid) > render.target
              THEN /\ grid' = deselectAll(newGrid)
                   /\ UNCHANGED <<target, score, mode, gameState, timeLeft>>
              ELSE /\ grid' = newGrid
                   /\ UNCHANGED <<target, score, mode, gameState, timeLeft>>
  /\ thrown' = (acceptsInput(render.gameState) /\ rowMissing(render.grid, r))
  /\ Rendered
  /\ UNCHANGED <<grav, idle>>

\* lines 111-117: the interval's callback
TickCallback ==
  /\ IF expired(timeLeft)
     THEN /\ \E vals \in [ColIdx -> Values] :
               LET res == addRow(grid, vals)
               IN  /\ grid' = res.grid
                   /\ gameState' = IF res.lost THEN "gameover" ELSE gameState
          /\ timeLeft' = TIME_MODE_LIMIT
     ELSE /\ timeLeft' = timeLeft - 1
          /\ UNCHANGED <<grid, gameState>>
  /\ UNCHANGED <<target, score, mode>>
  /\ idle' = IF idle.on /\ expired(timeLeft) /\ idle.expiries < MaxExpiries
             THEN [idle EXCEPT !.expiries = @ + 1] ELSE idle

\* lines 108-125: a live interval fires, and React renders before the next event
Tick ==
  /\ timers.live > 0
  /\ TickCallback
  /\ Rendered
  /\ Returned
  /\ UNCHANGED grav

\* mutant: the pause button is disabled in the menu only
pauseDisabledInMenu(gs) == gs = "menu"

\* line 346: disabled={gameState === 'menu' || gameState === 'gameover'}
pauseDisabled(gs) == gs = "menu" \/ gs = "gameover"

\* lines 343-349: the pause button; a disabled button delivers no click
togglePause ==
  /\ gameState' = IF pauseDisabled(render.gameState) THEN gameState
                  ELSE IF gameState = "playing" THEN "paused" ELSE "playing"
  /\ UNCHANGED <<grid, target, score, mode, timeLeft>>
  /\ Rendered
  /\ Returned
  /\ UNCHANGED <<grav, idle>>

\* lines 327-336: the resume button of the paused overlay
resume ==
  /\ render.gameState = "paused"
  /\ gameState' = "playing"
  /\ UNCHANGED <<grid, target, score, mode, timeLeft>>
  /\ Rendered
  /\ Returned
  /\ UNCHANGED <<grav, idle>>

\* mutant: quitting also clears the score
quitResetsScore ==
  /\ gameState' = "menu"
  /\ score' = 0
  /\ UNCHANGED <<grid, target, mode, timeLeft>>
  /\ Rendered
  /\ Returned
  /\ UNCHANGED <<grav, idle>>

\* lines 352-357: the quit button
quit ==
  /\ gameState' = "menu"
  /\ UNCHANGED <<grid, target, score, mode, timeLeft>>
  /\ Rendered
  /\ Returned
  /\ UNCHANGED <<grav, idle>>

\* lines 313-324: the button of the gameover overlay
restart ==
  /\ render.gameState = "gameover"
  /\ gameState' = "menu"
  /\ UNCHANGED <<grid, target, score, mode, timeLeft>>
  /\ Rendered
  /\ Returned
  /\ UNCHANGED <<grav, idle>>

Next ==
  \/ \E m \in GameModes : initGame(m)
  \/ \E r \in RowIdx, c \in ColIdx : handleBlockClick(r, c)
  \/ Tick
  \/ togglePause
  \/ resume
  \/ quit
  \/ restart

Spec == Init /\ [][Next]_vars

\* ------------------------------------------------- handleBlockClick's inputs
\* handleBlockClick(r: number, c: number), line 127: the rows and columns a
\* caller can pass, one past the board on either side
RowInputs == -1 .. ROWS
ColInputs == -1 .. COLS

NextInput ==
  \/ Next
  \/ \E r \in RowInputs, c \in ColInputs : handleBlockClick(r, c)

SpecInput == Init /\ [][NextInput]_vars

\* ------------------------------------------------- events between renders
\* The state updates of an interval callback are batched: React renders them
\* in a task of its scheduler, after the callback has returned. A click that
\* the browser dispatches before that task runs the handlers of the last
\* render, whose closures hold the grid, target, mode and gameState of then.

\* the last render shows the current state
Committed == render = Snapshot(grid, target, mode, gameState)

\* lines 108-125: a live interval fires; the render of its updates is pending
TickBatched ==
  /\ timers.live > 0
  /\ Committed
  /\ TickCallback
  /\ Returned
  /\ UNCHANGED <<render, timers, grav>>

\* lines 46-53, 108-125: the pending render of App, and its effects
Render ==
  /\ ~Committed
  /\ UNCHANGED <<grid, target, score, mode, gameState, timeLeft, grav, thrown, idle>>
  /\ Rendered

NextRace ==
  \/ Next
  \/ TickBatched
  \/ Render

SpecRace == Init /\ [][NextRace]_vars

\* ------------------------------------------------- the idle player
\* the board has tiles in exactly its bottom INITIAL_ROWS rows, as initGame
\* builds it (lines 62-70)
InitialShape(g) ==
  \A r \in RowIdx, c \in ColIdx : (g[r][c] # Null) <=> (r \in InitialRowIdx)

\* the player of a running TimeAttack game stops clicking: from here on only
\* the interval of lines 110-118 produces events
GoIdle ==
  /\ ~idle.on
  /\ gameState = "playing" /\ mode = "time"
  /\ idle' = [on |-> TRUE, fromStart |-> InitialShape(grid), expiries |-> 0]
  /\ UNCHANGED <<grid, target, score, mode, gameState, timeLeft, render, grav, timers, thrown>>

NextIdle ==
  \/ ~idle.on /\ Next
  \/ GoIdle
  \/ idle.on /\ Tick

\* setInterval (line 110) fires every second for as long as the interval lives
SpecIdle == Init /\ [][NextIdle]_vars /\ WF_vars(Tick)

\* ------------------------------------------------------------ gravity harness
\* the gravity pass as a function of an arbitrary grid: every cell of the input
\* is empty or holds a block whose id is its position
placed(f) ==
  [r \in RowIdx |-> [c \in ColIdx |->
     IF f[r][c] = 0 THEN Null ELSE Block(r * COLS + c + 1, f[r][c], FALSE)]]

InitGravity ==
  /\ grid = << >>
  /\ target = 0
  /\ score = 0
  /\ mode = "classic"
  /\ gameState = "menu"
  /\ timeLeft = TIME_MODE_LIMIT
  /\ render = Snapshot(<< >>, 0, "classic", "menu")
  /\ timers = NoTimers
  /\ thrown = FALSE
  /\ idle = NotIdle
  /\ \E f \in [RowIdx -> [ColIdx -> {0} \cup Values]] :
       grav = [in |-> placed(f), last |-> placed(f), out |-> placed(f), passes |-> 0]

\* lines 155-165 applied to the harness's grid
GravityPass ==
  /\ grav.passes < MaxPasses
  /\ grav' = [in |-> grav.in, last |-> grav.out, out |-> applyGravity(grav.out),
              passes |-> grav.passes + 1]
  /\ UNCHANGED <<grid, target, score, mode, gameState, timeLeft, render, timers, thrown, idle>>

NextGravity == GravityPass

SpecGravity == InitGravity /\ [][NextGravity]_vars

\* ============================================================ properties
Cells == RowIdx \X ColIdx

\* cell p of grid g holds a tile
Occupied(g, p) == g[p[1]][p[2]].id # 0

\* the tiles of the board that are selected once cell (r, c) is toggled
SelAfter(r, c) ==
  {p \in Cells : Occupied(grid, p) /\ (grid[p[1]][p[2]].isSelected # (p = <<r, c>>))}

RECURSIVE SumAt(_)
SumAt(S) ==
  IF S = {} THEN 0
  ELSE LET p == CHOOSE q \in S : TRUE IN grid[p[1]][p[2]].value + SumAt(S \ {p})

\* a cell activation in Playing on an occupied cell, and how it resolves
Activates(r, c) == gameState = "playing" /\ Occupied(grid, <<r, c>>)
IsMatch(r, c) == Activates(r, c) /\ SumAt(SelAfter(r, c)) = target
IsOverflow(r, c) == Activates(r, c) /\ SumAt(SelAfter(r, c)) > target
IsPending(r, c) == Activates(r, c) /\ SumAt(SelAfter(r, c)) < target

\* the step is the activation of (r, c), and it resolves to a Match
MatchStep(r, c) == IsMatch(r, c) /\ handleBlockClick(r, c)
\* the step is the countdown tick that expires
ExpiryStep == gameState = "playing" /\ mode = "time" /\ timeLeft = 1 /\ Tick

NoSelection(g) == \A p \in Cells : ~g[p[1]][p[2]].isSelected
SelectedIds(g) == {g[p[1]][p[2]].id : p \in {q \in Cells : g[q[1]][q[2]].isSelected}} \ {0}
RowZeroOccupied(g) == \E c \in ColIdx : g[0][c].id # 0

\* every tile is where it was, with its id and value
SameTiles(g, h) ==
  \A p \in Cells : /\ h[p[1]][p[2]].id = g[p[1]][p[2]].id
                   /\ h[p[1]][p[2]].value = g[p[1]][p[2]].value

\* the tiles of column c of g, top to bottom
RECURSIVE ColumnFrom(_, _, _)
ColumnFrom(g, c, r) ==
  IF r >= ROWS THEN << >>
  ELSE IF g[r][c].id # 0 THEN <<g[r][c]>> \o ColumnFrom(g, c, r + 1)
       ELSE ColumnFrom(g, c, r + 1)
ColumnTiles(g, c) == ColumnFrom(g, c, 0)

\* no empty cell below a tile
Packed(g) ==
  \A c \in ColIdx : \A r \in RowIdx :
    g[r][c].id # 0 => \A r2 \in RowIdx : r2 > r => g[r2][c].id # 0

\* h is g moved up by one row with a fresh full bottom row of unselected tiles
ShiftedByOne(g, h) ==
  /\ \A r \in RowIdx : r < ROWS - 1 => h[r] = g[r + 1]
  /\ \A c \in ColIdx : /\ h[ROWS - 1][c].id \notin (Ids(g) \cup {0})
                       /\ h[ROWS - 1][c].value \in Values
                       /\ ~h[ROWS - 1][c].isSelected
  /\ \A c1, c2 \in ColIdx : c1 # c2 => h[ROWS - 1][c1].id # h[ROWS - 1][c2].id

\* one row-injection attempt on g gave grid h and game state gs
OneInjection(g, h, gs) ==
  IF RowZeroOccupied(g)
  THEN h = g /\ gs = "gameover"
  ELSE ShiftedByOne(g, h) /\ gs = "playing"

\* ------------------------------------------------------------ C1
\* C1 as stated: every step leaves the score greater than or equal to the
\* score before it.
C1_ScoreNeverDecreases == [][score' >= score]_vars

\* C1, amended: a step lowers the score only when it is start(mode), taken
\* from Menu into Playing, and then the score becomes 0; every other step
\* leaves the score greater than or equal to the score before it.
C1_ScoreDecreasesOnlyOnStart ==
  [][score' < score =>
       gameState = "menu" /\ gameState' = "playing" /\ score' = 0]_vars

\* a game with a positive score has been quit: the next start resets it
C1_Witness == gameState = "menu" /\ score > 0

\* ------------------------------------------------------------ C2
\* C2 as stated: after every Match and after every row injection that shifts
\* the grid, the countdown-expiry one included, no cell is selected.
C2_NoSelectionAfterShift ==
  [][/\ \A r \in RowIdx, c \in ColIdx : MatchStep(r, c) => NoSelection(grid')
     /\ (ExpiryStep /\ ~RowZeroOccupied(grid)) => NoSelection(grid')]_vars

\* C2, amended: after every Match (its gravity pass and, in Classic, its row
\* injection) no cell is selected; a countdown-expiry injection moves every
\* tile up one row together with its selected flag, and the new bottom row is
\* unselected.
C2_SelectionAfterShift ==
  [][/\ \A r \in RowIdx, c \in ColIdx : MatchStep(r, c) => NoSelection(grid')
     /\ (ExpiryStep /\ ~RowZeroOccupied(grid)) =>
          /\ \A r \in RowIdx, c \in ColIdx :
               r < ROWS - 1 => grid'[r][c].isSelected = grid[r + 1][c].isSelected
          /\ \A c \in ColIdx : ~grid'[ROWS - 1][c].isSelected]_vars

\* a selected tile stands above the initial rows of a TimeAttack game whose
\* countdown has just been reset: it was shifted there by an injection
C2_Witness ==
  /\ gameState = "playing" /\ mode = "time" /\ timeLeft = TIME_MODE_LIMIT /\ score = 0
  /\ \E r \in RowIdx, c \in ColIdx : r < ROWS - INITIAL_ROWS /\ grid[r][c].isSelected

\* ------------------------------------------------------------ C3
\* C3: a row-injection attempt (the countdown expiry, or the one after a
\* Classic Match on the grid left by clearing and gravity) with a tile in row
\* 0 leaves the grid unchanged and ends in GameOver; otherwise every row takes
\* the row below it, a fresh full unselected row becomes the bottom row and
\* the game stays Playing.  GameOver is entered by such a losing attempt only.
C3_LossPrecedesInjection ==
  [][/\ ExpiryStep => OneInjection(grid, grid', gameState')
     /\ \A r \in RowIdx, c \in ColIdx :
          (MatchStep(r, c) /\ mode = "classic") =>
             OneInjection(matchGrid(grid, r, c), grid', gameState')
     /\ (gameState' = "gameover" /\ gameState # "gameover") =>
          /\ RowZeroOccupied(grid')
          /\ \/ ExpiryStep /\ grid' = grid
             \/ \E r \in RowIdx, c \in ColIdx :
                  MatchStep(r, c) /\ mode = "classic" /\ grid' = matchGrid(grid, r, c)]_vars

\* a game was lost with row 0 occupied in one column only
C3_Witness ==
  /\ gameState = "gameover"
  /\ \E c1, c2 \in ColIdx : grid[0][c1].id # 0 /\ grid[0][c2].id = 0

\* ------------------------------------------------------------ C4
\* the grid g left by clearing and gravity holds no tile that was selected in
\* grid b, and every other tile of b once, in its column, with its id and value
ClearedExactly(b, g) ==
  /\ Ids(g) \cap SelectedIds(b) = {}
  /\ \A c \in ColIdx :
       LET kept == {b[r][c].id : r \in RowIdx} \ (SelectedIds(b) \cup {0})
           now == ColumnTiles(g, c)
       IN  /\ {now[i].id : i \in DOMAIN now} = kept
           /\ Len(now) = Cardinality(kept)
           /\ \A i \in DOMAIN now : \A r \in RowIdx :
                b[r][c].id = now[i].id => b[r][c].value = now[i].value

\* C4: when an activation makes the selected sum equal to the target, the
\* grid left by clearing and gravity (the new grid in TimeAttack, the grid the
\* Classic injection starts from) has lost every selected tile, the one just
\* toggled on included, and kept every other tile in its column with its id
\* and value.
C4_MatchClearsExactlySelected ==
  [][\A r \in RowIdx, c \in ColIdx :
       MatchStep(r, c) =>
         LET b == [grid EXCEPT ![r][c].isSelected = ~@]
             g == IF mode = "time" THEN grid' ELSE matchGrid(grid, r, c)
         IN  ClearedExactly(b, g)]_vars

\* a TimeAttack Match has cleared tiles and left a column shorter than another
C4_Witness ==
  /\ gameState = "playing" /\ mode = "time" /\ score > 0
  /\ \E c1, c2 \in ColIdx : Len(ColumnTiles(grid, c1)) < Len(ColumnTiles(grid, c2))

\* ------------------------------------------------------------ C5
\* C5: a Match adds 10 points per selected tile to the score; an activation
\* that resolves to Overflow or Pending, a countdown tick, pause and resume
\* leave the score unchanged.
C5_TenPointsPerTile ==
  [][/\ \A r \in RowIdx, c \in ColIdx :
          /\ MatchStep(r, c) => score' = score + 10 * Cardinality(SelAfter(r, c))
          /\ ((IsOverflow(r, c) \/ IsPending(r, c)) /\ handleBlockClick(r, c))
                => score' = score
     /\ (Tick \/ togglePause \/ resume) => score' = score]_vars

\* two tiles have been cleared in a TimeAttack game and scored
C5_Witness ==
  /\ gameState = "playing" /\ score = 2 * POINTS
  /\ Cardinality(Ids(grid)) = INITIAL_ROWS * COLS - 2 /\ mode = "time"

\* ------------------------------------------------------------ C6
\* C6: when an activation makes the selected sum greater than the target,
\* afterwards no cell is selected, every tile keeps its id, value and
\* position, and score, target, timeLeft and gameState are unchanged.
C6_OverflowResetsSelectionOnly ==
  [][\A r \in RowIdx, c \in ColIdx :
       (IsOverflow(r, c) /\ handleBlockClick(r, c)) =>
          /\ NoSelection(grid')
          /\ SameTiles(grid, grid')
          /\ UNCHANGED <<score, target, timeLeft, gameState>>]_vars

\* an Overflow is about to happen with another tile already selected
C6_Witness ==
  \E r \in RowIdx, c \in ColIdx :
    IsOverflow(r, c) /\ Cardinality(SelAfter(r, c)) >= 2

\* ------------------------------------------------------------ C7
\* C7: the gravity pass yields, in every column, the column's tiles in the
\* same top-to-bottom order, packed into the bottom rows with the empty cells
\* above them; no tile is created, lost, duplicated or moved to another column.
C7_GravityKeepsOrder ==
  grav.passes >= 1 =>
    /\ \A c \in ColIdx : ColumnTiles(grav.out, c) = ColumnTiles(grav.last, c)
    /\ Packed(grav.out)

\* the pass ran on a grid with a hole between two tiles of a column
C7_Witness ==
  /\ grav.passes = 1
  /\ \E c \in ColIdx : \E r1, r2, r3 \in RowIdx :
       /\ r1 < r2 /\ r2 < r3
       /\ grav.in[r1][c].id # 0 /\ grav.in[r2][c].id = 0 /\ grav.in[r3][c].id # 0

\* ------------------------------------------------------------ C8
\* C8: applying the gravity pass twice gives the same grid as applying it once.
C8_GravityIdempotent == grav.passes = 2 => grav.out = grav.last

\* two passes ran on a grid that the first pass changed
C8_Witness == grav.passes = 2 /\ grav.last # grav.in

\* ------------------------------------------------------------ C9
\* C9: in Classic a Match makes, in the same step and on the grid left by
\* clearing and gravity, exactly one row-injection attempt, and no other step
\* of a Classic game moves a tile, ends the game or changes timeLeft; in
\* TimeAttack a Match adds no tile and sets timeLeft to TIME_MODE_LIMIT.
C9_PostClearByMode ==
  [][/\ \A r \in RowIdx, c \in ColIdx :
          MatchStep(r, c) =>
            IF mode = "classic"
            THEN /\ OneInjection(matchGrid(grid, r, c), grid', gameState')
                 /\ timeLeft' = timeLeft
            ELSE /\ Ids(grid') \subseteq Ids(grid)
                 /\ ~RowZeroOccupied(grid) => ~RowZeroOccupied(grid')
                 /\ gameState' = "playing"
                 /\ timeLeft' = TIME_MODE_LIMIT
     /\ (mode = "classic" /\ gameState # "menu") =>
          /\ timeLeft' = timeLeft
          /\ score' = score => (SameTiles(grid, grid') /\ gameState' # "gameover")]_vars

\* a Classic Match has injected a row: tiles stand above the initial rows
C9_Witness ==
  /\ mode = "classic" /\ gameState = "playing" /\ score > 0
  /\ RowZeroOccupied(grid)

\* ------------------------------------------------------------ C10
\* C10: in a TimeAttack game timeLeft stays within 1..TIME_MODE_LIMIT; a tick
\* with more than one second left takes one second off and does nothing else;
\* the tick that would reach zero makes exactly one row-injection attempt
\* (with row 0 empty exactly one row is injected) and resets timeLeft to
\* TIME_MODE_LIMIT, so the attempts are TIME_MODE_LIMIT ticks apart.
C10_CountdownExpiry ==
  [][(gameState = "playing" /\ mode = "time" /\ Tick) =>
       /\ timeLeft \in 1 .. TIME_MODE_LIMIT
       /\ IF timeLeft > 1
          THEN /\ timeLeft' = timeLeft - 1
               /\ grid' = grid
               /\ gameState' = gameState
          ELSE /\ OneInjection(grid, grid', gameState')
               /\ timeLeft' = TIME_MODE_LIMIT
       /\ UNCHANGED <<score, target, mode>>]_vars

\* the countdown has expired without a Match and a row was injected
C10_Witness ==
  /\ gameState = "playing" /\ mode = "time" /\ score = 0
  /\ timeLeft = TIME_MODE_LIMIT
  /\ \A c \in ColIdx : Len(ColumnTiles(grid, c)) = INITIAL_ROWS + 1


\* the step starts a game from the menu
StartStep == gameState = "menu" /\ gameState' = "playing"

\* C11: the countdown advances only while the game is Playing: exactly one
\* interval is live in a Playing TimeAttack game and none in any other state;
\* outside Playing no step but the start of a game changes timeLeft or the
\* grid; pausing and resuming keep timeLeft, so the countdown continues from
\* the value it was frozen at.
C11_CountdownOnlyWhilePlaying ==
  [][ /\ timers'.live = (IF gameState' = "playing" /\ mode' = "time" THEN 1 ELSE 0)
      /\ (gameState # "playing" /\ ~StartStep => timeLeft' = timeLeft /\ grid' = grid)
      /\ (gameState = "playing" /\ gameState' = "paused" => timeLeft' = timeLeft)
      /\ (gameState = "paused" /\ gameState' = "playing" => timeLeft' = timeLeft)
      /\ (Tick => gameState = "playing") ]_vars

\* a TimeAttack game paused in the middle of a countdown, its interval cleared
C11_Witness ==
  /\ gameState = "paused" /\ mode = "time"
  /\ timeLeft < TIME_MODE_LIMIT
  /\ timers.live = 0

\* the state the players see: grid, target, score, timeLeft, mode, gameState
game == <<grid, target, score, timeLeft, mode, gameState>>

\* C12: a cell activation delivered while the game is in Menu, Paused or
\* GameOver leaves grid, target, score, timeLeft, mode and gameState unchanged.
C12_InactiveStatesIgnoreCells ==
  [][\A r \in RowIdx, c \in ColIdx :
       gameState # "playing" /\ handleBlockClick(r, c) => UNCHANGED game]_vars

\* a paused game that holds a selection and tiles a click could select
C12_Witness ==
  /\ gameState = "paused"
  /\ \E p \in Cells : grid[p[1]][p[2]].isSelected
  /\ \E p \in Cells : Occupied(grid, p) /\ ~grid[p[1]][p[2]].isSelected

\* the step has the effect of initGame: a fresh board of INITIAL_ROWS rows,
\* a target, no score and a full countdown
Started ==
  /\ render.gameState = "menu"
  /\ \A r \in InitialRowIdx, c \in ColIdx : grid'[r][c].value \in Values
  /\ grid' = initialGrid([r \in InitialRowIdx |-> [c \in ColIdx |-> grid'[r][c].value]])
  /\ target' \in Targets /\ score' = 0 /\ timeLeft' = TIME_MODE_LIMIT
  /\ mode' \in GameModes

\* the transitions of gameState the controller has
Transitions ==
  { <<"menu", "playing">>, <<"playing", "paused">>, <<"paused", "playing">>,
    <<"playing", "menu">>, <<"paused", "menu">>, <<"playing", "gameover">>,
    <<"gameover", "menu">> }

\* C13: gameState changes only from Menu to Playing (start), Playing to Paused
\* (pause), Paused to Playing (resume), Playing or Paused to Menu (quit),
\* Playing to GameOver (an injection refused by an occupied top row) and
\* GameOver to Menu (restart); a click on the pause button in Menu or GameOver
\* leaves gameState unchanged.
C13_GameStateTransitions ==
  [][ /\ gameState' # gameState => <<gameState, gameState'>> \in Transitions
      /\ StartStep => Started
      /\ gameState = "playing" /\ gameState' = "paused" => togglePause
      /\ gameState = "paused" /\ gameState' = "playing" => togglePause \/ resume
      /\ gameState \in {"playing", "paused"} /\ gameState' = "menu" => quit
      /\ gameState' = "gameover" /\ gameState # "gameover"
           => /\ RowZeroOccupied(grid')
              /\ Tick \/ \E r \in RowIdx, c \in ColIdx : handleBlockClick(r, c)
      /\ gameState = "gameover" /\ gameState' = "menu" => restart \/ quit
      /\ gameState \in {"menu", "gameover"} /\ togglePause
           => gameState' = gameState ]_vars

\* a lost TimeAttack game with points: the pause button was live during the
\* game and is dead now
C13_Witness == gameState = "gameover" /\ mode = "time" /\ score > 0

\* (r, c) names no tile of the grid: outside the board, or an empty cell
Invalid(r, c) == r \notin RowIdx \/ c \notin ColIdx \/ grid[r][c] = Null

\* C14: while Playing, the activation of an empty cell or of a (row, col)
\* outside the ROWS x COLS board leaves the whole state unchanged and raises
\* no failure.
C14_InvalidActivationsAreNoOps ==
  [][\A r \in RowInputs, c \in ColInputs :
       gameState = "playing" /\ Invalid(r, c) /\ handleBlockClick(r, c)
         => UNCHANGED game /\ ~thrown']_vars

\* C15: a Match in Classic that leaves a tile in row 0 after clearing and
\* gravity ends in GameOver, the final grid is exactly the cleared and
\* compacted grid with no shift and no new row, and the score includes the 10
\* points for each selected tile of that Match.
C15_LosingMatchStillCounts ==
  [][\A r \in RowIdx, c \in ColIdx :
       /\ MatchStep(r, c)
       /\ mode = "classic"
       /\ RowZeroOccupied(matchGrid(grid, r, c))
       => /\ gameState' = "gameover"
          /\ grid' = matchGrid(grid, r, c)
          /\ score' = score + 10 * Cardinality(SelAfter(r, c))]_vars

\* a Classic game lost by its second Match: the Match cleared a tile of one
\* column, another column still reaches row 0, and no row was added
C15_Witness ==
  /\ gameState = "gameover" /\ mode = "classic"
  /\ score = 2 * POINTS
  /\ \E c \in ColIdx : grid[0][c] = Null /\ grid[ROWS - 1][c] # Null
  /\ \E c \in ColIdx : grid[0][c] # Null

\* C16: a Pending activation (the selected sum after the toggle is below the
\* target) flips the isSelected flag of the addressed cell and nothing else:
\* every other cell, target, score, timeLeft, mode and gameState are unchanged.
C16_PendingTogglesOneFlag ==
  [][\A r \in RowIdx, c \in ColIdx :
       IsPending(r, c) /\ handleBlockClick(r, c)
       => /\ grid' = [grid EXCEPT ![r][c].isSelected = ~grid[r][c].isSelected]
          /\ UNCHANGED <<target, score, timeLeft, mode, gameState>>]_vars

\* a running TimeAttack game with one tile selected and its sum short of the
\* target: the next click on that tile deselects it, on another selects a second
C16_Witness ==
  /\ gameState = "playing" /\ mode = "time"
  /\ Cardinality(SelectedIds(grid)) = 1
  /\ SumAt({p \in Cells : grid[p[1]][p[2]].isSelected}) + 1 < target

\* C17: a countdown-expiry injection and a cell activation delivered back to
\* back are atomic with respect to each other: the activation computes from
\* the grid all earlier events produced, so the tiles that leave the board in
\* an activation are tiles of its selection and never a row injected before it.
C17_ActivationKeepsInjectedRow ==
  [][\A r \in RowIdx, c \in ColIdx :
       gameState = "playing" /\ handleBlockClick(r, c)
       => Ids(grid) \ Ids(grid') \subseteq SelectedIds(grid) \cup {grid[r][c].id}]_vars

\* C18: in every reachable state after a game was started the board is
\* gravity-compact: no column holds an empty cell below a tile.
C18_BoardIsCompact == grid # << >> => Packed(grid)

\* a TimeAttack Match cleared the bottom tile of a column and the tile of the
\* second initial row fell into its place
C18_Witness ==
  /\ gameState = "playing" /\ mode = "time" /\ score = POINTS
  /\ \E c \in ColIdx : grid[ROWS - 1][c].id > COLS /\ grid[ROWS - 2][c] = Null

\* C19: in Playing, Paused and GameOver the sum of the selected tiles is
\* strictly below the target.
C19_SelectedSumBelowTarget ==
  gameState \in {"playing", "paused", "gameover"}
    => SumAt({p \in Cells : grid[p[1]][p[2]].isSelected}) < target

\* several tiles are selected and one point is missing to the target
C19_Witness ==
  /\ gameState = "playing"
  /\ Cardinality(SelectedIds(grid)) >= 2
  /\ SumAt({p \in Cells : grid[p[1]][p[2]].isSelected}) = target - 1

\* C20: a TimeAttack game whose player has gone idle always ends: with the
\* interval firing, gameState eventually becomes GameOver; from the initial
\* board of INITIAL_ROWS rows the game is lost at countdown expiry number
\* ROWS - INITIAL_ROWS + 1, after exactly ROWS - INITIAL_ROWS rows were
\* injected, and not before.
C20_IdleGameEnds ==
  /\ idle.on ~> gameState = "gameover"
  /\ [](idle.on /\ idle.fromStart =>
          IF gameState = "gameover"
          THEN /\ idle.expiries = ROWS - INITIAL_ROWS + 1
               /\ Cardinality(Ids(grid)) = ROWS * COLS
          ELSE /\ idle.expiries <= ROWS - INITIAL_ROWS
               /\ Cardinality(Ids(grid)) = (INITIAL_ROWS + idle.expiries) * COLS)

\* an idle game that began on the initial board has been lost
C20_Witness ==
  /\ idle.on /\ idle.fromStart
  /\ gameState = "gameover" /\ mode = "time"
  /\ idle.expiries = ROWS - INITIAL_ROWS + 1

====
